---- MODULE Spec2Model ----
(***************************************************************************)
(* Customer management package: the entities Cliente / ClienteVIP          *)
(* (mi_paquete_clientes/cliente.py), the store SistemaClientes             *)
(* (mi_paquete_clientes/sistema_clientes.py) and the console handlers that *)
(* drive them (main.py).                                                   *)
(*                                                                         *)
(* Money is counted in hundredths of the currency unit (integers), and a   *)
(* discount rate in hundredths as well (10 is the rate 0.10), so           *)
(* monto * (1 - descuento) is (monto * (100 - descuento)) \div 100; the    *)
(* amounts drawn are multiples of 100, which makes the division exact.     *)
(* Binary floating-point rounding is not modelled.  An e-mail address is a *)
(* sequence of characters, "SP" standing for a blank and "NL" for a line   *)
(* feed.  The display name and the postal address of a customer take part  *)
(* in no operation modelled here and are left out.                         *)
(***************************************************************************)
EXTENDS Integers, Sequences, FiniteSets, TLC

VARIABLES clientes, archivo, reloj, last, hilos

vars == <<clientes, archivo, reloj, last, hilos>>

----------------------------------------------------------------------------
(* Bounds of the model *)

\* no recharge takes a balance above MaxSaldo
MaxSaldo == 100
\* purchases recorded per customer, in SpecCliente and in Spec
MaxHist == 2
MaxCompras == 1

(* Inputs drawn by the operations *)

E_a == <<"a", "@", "b", ".", "c", "o">>
E_A == <<"A", "@", "b", ".", "c", "o">>
E_sp == <<"SP", "a", "@", "b", ".", "c", "o">>
E_nl == <<"a", "@", "b", ".", "c", "o", "NL">>
E_z == <<"z", "@", "b", ".", "c", "o">>

\* addresses typed at the console or posted to the web form: two customers,
\* the first one also in upper case, after a blank and before a line feed
Correos == {E_a, E_A, E_sp, E_nl, E_z}
\* amounts of a purchase or a recharge, and discount rates, in hundredths
Montos == {-100, 0, 100}
Descuentos == {-5, 0, 50, 105}
\* registration requests: <<class, address, initial balance, discount rate>>
Altas ==
    {<<"Regular", E_a, 100, 0>>, <<"VIP", E_A, 100, 50>>, <<"Regular", E_nl, 100, 0>>,
     <<"Regular", E_sp, 100, 0>>, <<"Regular", E_a, -100, 0>>, <<"VIP", E_a, 100, -5>>,
     <<"VIP", E_a, 100, 105>>, <<"Regular", E_z, 100, 0>>}
\* the readings of datetime.now(): an earlier and a later instant
Tiempos == {0, 1}
\* what the file system does to a save: it goes through, or the write fails
\* after open() has truncated the file
Modos == {"ok", "fail_write"}

----------------------------------------------------------------------------
(* Character classes and string functions of Python *)

Minusculas == {"a", "b", "c", "o", "z"}
Mayusculas == {"A"}
Letras == Minusculas \cup Mayusculas
Espacios == {"SP", "NL"}

\* str.lower(), one character
lower_char(c) == IF c = "A" THEN "a" ELSE c

\* str.lower()
lower(s) == [i \in 1..Len(s) |-> lower_char(s[i])]

\* str.strip(): drops the leading and the trailing whitespace
RECURSIVE lstrip(_)
lstrip(s) == IF s # <<>> /\ Head(s) \in Espacios THEN lstrip(Tail(s)) ELSE s

RECURSIVE rstrip(_)
rstrip(s) ==
    IF s # <<>> /\ s[Len(s)] \in Espacios
    THEN rstrip(SubSeq(s, 1, Len(s) - 1))
    ELSE s

strip(s) == rstrip(lstrip(s))

\* every character of s[a..b] is in class K, and the range is not empty
TodosEn(s, a, b, K) == a <= b /\ \A i \in a..b : s[i] \in K

\* re.match(r'^[a-zA-Z0-9._%+-]+@[a-zA-Z0-9.-]+\.[a-zA-Z]{2,}$', correo):
\* '$' matches at the end and also just before one trailing line feed
PatronCorreo(s) ==
    \E n \in {Len(s)} \cup (IF s # <<>> /\ s[Len(s)] = "NL" THEN {Len(s) - 1} ELSE {}) :
      \E i \in 1..n : \E j \in 1..n :
        /\ i < j
        /\ s[i] = "@"
        /\ s[j] = "."
        /\ TodosEn(s, 1, i - 1, Letras \cup {"."})
        /\ TodosEn(s, i + 1, j - 1, Letras \cup {"."})
        /\ TodosEn(s, j + 1, n, Letras)
        /\ n - j >= 2

----------------------------------------------------------------------------
(* cliente.py: Cliente and ClienteVIP *)

\* PatronCorreo and strip(lower(...)) tabulated over the addresses drawn, so
\* that they are computed once
TablaPatron == [c \in Correos |-> PatronCorreo(c)]
TablaNormal == [c \in Correos |-> strip(lower(c))]

\* Cliente._validar_correo: TRUE when no ValueError is raised
validar_correo(correo) ==
    IF correo \in Correos THEN TablaPatron[correo] ELSE PatronCorreo(correo)

\* correo.lower().strip(), as in Cliente.__init__ and buscar_cliente
normalizar(correo) ==
    IF correo \in Correos THEN TablaNormal[correo] ELSE strip(lower(correo))

\* Cliente._validar_saldo
validar_saldo(saldo) == saldo >= 0

\* ClienteVIP._validar_descuento
validar_descuento(descuento) == 0 <= descuento /\ descuento <= 100

\* ClienteVIP.NIVELES_VIP, the thresholds in hundredths
NIVELES_VIP ==
    [d \in {5, 10, 15, 20, 25} |->
        CASE d = 5 -> "Bronce"
          [] d = 10 -> "Plata"
          [] d = 15 -> "Oro"
          [] d = 20 -> "Platino"
          [] d = 25 -> "Diamante"]

\* ClienteVIP._calcular_nivel_vip: the thresholds are scanned from the highest
\* down and the first one not above the rate wins; "Bronce" when none is
calcular_nivel_vip(descuento) ==
    LET alcanzados == {d \in DOMAIN NIVELES_VIP : descuento >= d} IN
    IF alcanzados = {} THEN "Bronce"
    ELSE NIVELES_VIP[CHOOSE d \in alcanzados : \A e \in alcanzados : e <= d]

\* Cliente.__init__ keeping the address as it was given
Cliente_sin_normalizar(correo, saldo, ahora) ==
    IF ~validar_correo(correo) \/ ~validar_saldo(saldo)
    THEN [res |-> "ValueError"]
    ELSE [res |-> "ok",
          obj |-> [tipo |-> "Regular",
                   correo |-> correo,
                   saldo |-> saldo,
                   fecha_registro |-> ahora,
                   activo |-> TRUE,
                   historial |-> <<>>]]

\* Cliente.__init__: res is "ok" or the exception raised
Cliente(correo, saldo, ahora) ==
    IF ~validar_correo(correo) \/ ~validar_saldo(saldo)
    THEN [res |-> "ValueError"]
    ELSE [res |-> "ok",
          obj |-> [tipo |-> "Regular",
                   correo |-> normalizar(correo),
                   saldo |-> saldo,
                   fecha_registro |-> ahora,
                   activo |-> TRUE,
                   historial |-> <<>>]]

\* ClienteVIP.__init__
ClienteVIP(correo, saldo, descuento, ahora) ==
    LET base == Cliente(correo, saldo, ahora) IN
    IF base.res # "ok" THEN base
    ELSE IF ~validar_descuento(descuento) THEN [res |-> "ValueError"]
    ELSE [res |-> "ok",
          obj |-> [tipo |-> "VIP",
                   correo |-> base.obj.correo,
                   saldo |-> base.obj.saldo,
                   fecha_registro |-> base.obj.fecha_registro,
                   activo |-> base.obj.activo,
                   historial |-> base.obj.historial,
                   descuento |-> descuento,
                   nivel_vip |-> calcular_nivel_vip(descuento)]]

\* Cliente.realizar_compra without the test of the funds
Cliente_realizar_compra_sin_fondos(c, monto, ahora) ==
    IF monto <= 0 THEN [res |-> "ValueError", obj |-> c]
    ELSE LET s == c.saldo - monto IN
         [res |-> "ok",
          obj |-> [c EXCEPT !.saldo = s,
                            !.historial = Append(@, [fecha |-> ahora,
                                                     monto |-> monto,
                                                     saldo_restante |-> s])]]

\* Cliente.realizar_compra refusing a deactivated customer
Cliente_realizar_compra_solo_activos(c, monto, ahora) ==
    IF monto <= 0 THEN [res |-> "ValueError", obj |-> c]
    ELSE IF ~c.activo THEN [res |-> "inactivo", obj |-> c]
    ELSE IF monto > c.saldo THEN [res |-> "insuficiente", obj |-> c]
    ELSE LET s == c.saldo - monto IN
         [res |-> "ok",
          obj |-> [c EXCEPT !.saldo = s,
                            !.historial = Append(@, [fecha |-> ahora,
                                                     monto |-> monto,
                                                     saldo_restante |-> s])]]

\* Cliente.realizar_compra
Cliente_realizar_compra(c, monto, ahora) ==
    IF monto <= 0 THEN [res |-> "ValueError", obj |-> c]
    ELSE IF monto > c.saldo THEN [res |-> "insuficiente", obj |-> c]
    ELSE LET s == c.saldo - monto IN
         [res |-> "ok",
          obj |-> [c EXCEPT !.saldo = s,
                            !.historial = Append(@, [fecha |-> ahora,
                                                     monto |-> monto,
                                                     saldo_restante |-> s])]]

\* ClienteVIP.realizar_compra with the balance clamped at zero on a decline
ClienteVIP_realizar_compra_recorta(c, monto, ahora) ==
    IF monto <= 0 THEN [res |-> "ValueError", obj |-> c]
    ELSE LET monto_con_descuento == (monto * (100 - c.descuento)) \div 100
             ahorro == monto - monto_con_descuento
             s == c.saldo - monto_con_descuento
         IN IF monto_con_descuento > c.saldo
            THEN [res |-> "insuficiente", obj |-> [c EXCEPT !.saldo = 0]]
            ELSE [res |-> "ok",
                  obj |-> [c EXCEPT !.saldo = s,
                                    !.historial = Append(@, [fecha |-> ahora,
                                                             monto_original |-> monto,
                                                             monto_final |-> monto_con_descuento,
                                                             ahorro |-> ahorro,
                                                             saldo_restante |-> s])]]

\* ClienteVIP.realizar_compra testing the funds against the original amount
ClienteVIP_realizar_compra_sobre_original(c, monto, ahora) ==
    IF monto <= 0 THEN [res |-> "ValueError", obj |-> c]
    ELSE LET monto_con_descuento == (monto * (100 - c.descuento)) \div 100
             ahorro == monto - monto_con_descuento
             s == c.saldo - monto_con_descuento
         IN IF monto > c.saldo
            THEN [res |-> "insuficiente", obj |-> c]
            ELSE [res |-> "ok",
                  obj |-> [c EXCEPT !.saldo = s,
                                    !.historial = Append(@, [fecha |-> ahora,
                                                             monto_original |-> monto,
                                                             monto_final |-> monto_con_descuento,
                                                             ahorro |-> ahorro,
                                                             saldo_restante |-> s])]]

\* ClienteVIP.realizar_compra
ClienteVIP_realizar_compra(c, monto, ahora) ==
    IF monto <= 0 THEN [res |-> "ValueError", obj |-> c]
    ELSE LET monto_con_descuento == (monto * (100 - c.descuento)) \div 100
             ahorro == monto - monto_con_descuento
             s == c.saldo - monto_con_descuento
         IN IF monto_con_descuento > c.saldo
            THEN [res |-> "insuficiente", obj |-> c]
            ELSE [res |-> "ok",
                  obj |-> [c EXCEPT !.saldo = s,
                                    !.historial = Append(@, [fecha |-> ahora,
                                                             monto_original |-> monto,
                                                             monto_final |-> monto_con_descuento,
                                                             ahorro |-> ahorro,
                                                             saldo_restante |-> s])]]

\* dynamic dispatch of cliente.realizar_compra(monto)
realizar_compra(c, monto, ahora) ==
    IF c.tipo = "VIP"
    THEN ClienteVIP_realizar_compra(c, monto, ahora)
    ELSE Cliente_realizar_compra(c, monto, ahora)

\* Cliente.recargar_saldo recording the recharge in the purchase history
recargar_saldo_con_registro(c, monto) ==
    IF monto <= 0 THEN [res |-> "ValueError", obj |-> c]
    ELSE [res |-> "ok",
          obj |-> [c EXCEPT !.saldo = @ + monto,
                            !.historial = Append(@, [fecha |-> 0,
                                                     monto |-> monto,
                                                     saldo_restante |-> c.saldo + monto])]]

\* Cliente.recargar_saldo (inherited unchanged by ClienteVIP)
recargar_saldo(c, monto) ==
    IF monto <= 0 THEN [res |-> "ValueError", obj |-> c]
    ELSE [res |-> "ok", obj |-> [c EXCEPT !.saldo = @ + monto]]

\* ClienteVIP.actualizar_descuento assigning the rate before validating it
actualizar_descuento_asigna_antes(c, nuevo_descuento) ==
    [res |-> IF validar_descuento(nuevo_descuento) THEN "ok" ELSE "ValueError",
     obj |-> [c EXCEPT !.descuento = nuevo_descuento,
                       !.nivel_vip = IF validar_descuento(nuevo_descuento)
                                     THEN calcular_nivel_vip(nuevo_descuento)
                                     ELSE @]]

\* ClienteVIP.actualizar_descuento without the recomputation of the level
actualizar_descuento_sin_nivel(c, nuevo_descuento) ==
    IF ~validar_descuento(nuevo_descuento) THEN [res |-> "ValueError", obj |-> c]
    ELSE [res |-> "ok", obj |-> [c EXCEPT !.descuento = nuevo_descuento]]

\* ClienteVIP.actualizar_descuento
actualizar_descuento(c, nuevo_descuento) ==
    IF ~validar_descuento(nuevo_descuento) THEN [res |-> "ValueError", obj |-> c]
    ELSE [res |-> "ok",
          obj |-> [c EXCEPT !.descuento = nuevo_descuento,
                            !.nivel_vip = calcular_nivel_vip(nuevo_descuento)]]

\* Cliente.desactivar / Cliente.activar
desactivar(c) == [c EXCEPT !.activo = FALSE]
activar(c) == [c EXCEPT !.activo = TRUE]

\* Cliente.es_activo
es_activo(c) == c.activo

\* Cliente.obtener_total_compras: sum(compra['monto'] ...); a record without
\* the key 'monto' raises KeyError (raised = TRUE, no value returned)
RECURSIVE obtener_total_compras_de(_)
obtener_total_compras_de(h) ==
    IF h = <<>> THEN [raised |-> FALSE, valor |-> 0]
    ELSE IF "monto" \notin DOMAIN Head(h) THEN [raised |-> TRUE, valor |-> 0]
    ELSE LET resto == obtener_total_compras_de(Tail(h)) IN
         IF resto.raised THEN resto
         ELSE [raised |-> FALSE, valor |-> Head(h).monto + resto.valor]

obtener_total_compras(c) == obtener_total_compras_de(c.historial)

\* ClienteVIP.obtener_ahorro_total: sum(compra.get('ahorro', 0) ...)
RECURSIVE obtener_ahorro_total_de(_)
obtener_ahorro_total_de(h) ==
    IF h = <<>> THEN 0
    ELSE (IF "ahorro" \in DOMAIN Head(h) THEN Head(h).ahorro ELSE 0)
         + obtener_ahorro_total_de(Tail(h))

obtener_ahorro_total(c) == obtener_ahorro_total_de(c.historial)

----------------------------------------------------------------------------
(* sistema_clientes.py: SistemaClientes *)

\* the mapping with no customer, self.clientes = {}
Vacio == [k \in {} |-> 0]

\* datetime.isoformat() and datetime.fromisoformat()
isoformat(t) == [iso |-> t]
fromisoformat(x) == x.iso

\* the record _guardar_datos builds for one customer
cliente_data(c) ==
    IF c.tipo = "VIP"
    THEN [correo |-> c.correo, saldo |-> c.saldo,
          fecha_registro |-> isoformat(c.fecha_registro),
          activo |-> c.activo, tipo |-> "VIP",
          descuento |-> c.descuento, nivel_vip |-> c.nivel_vip]
    ELSE [correo |-> c.correo, saldo |-> c.saldo,
          fecha_registro |-> isoformat(c.fecha_registro),
          activo |-> c.activo, tipo |-> "Regular"]

\* the document _guardar_datos writes: one record per key of the mapping
datos_de(cl) == [k \in DOMAIN cl |-> cliente_data(cl[k])]

\* SistemaClientes._guardar_datos letting the exception of a failed write out
guardar_datos_propaga(cl, arch, modo) ==
    [archivo |-> CASE modo = "ok" -> [estado |-> "ok", datos |-> datos_de(cl)]
                   [] modo = "fail_open" -> arch
                   [] modo = "fail_write" -> [estado |-> "corrupt", datos |-> Vacio],
     raised |-> modo # "ok"]

\* SistemaClientes._guardar_datos.  modo is what the file system does: "ok",
\* "fail_open" (open() raises, the file is untouched) or "fail_write" (the
\* file was truncated by open() and the write raises, leaving a document
\* that does not parse).  The exception is caught: raised is always FALSE.
guardar_datos(cl, arch, modo) ==
    [archivo |-> CASE modo = "ok" -> [estado |-> "ok", datos |-> datos_de(cl)]
                   [] modo = "fail_open" -> arch
                   [] modo = "fail_write" -> [estado |-> "corrupt", datos |-> Vacio],
     raised |-> FALSE]

\* the iteration of the loop of _cargar_datos without "Restaurar estado"
cargar_cliente_sin_estado(d, ahora) ==
    IF d.tipo = "VIP"
    THEN ClienteVIP(d.correo, d.saldo, d.descuento, ahora)
    ELSE Cliente(d.correo, d.saldo, ahora)

\* one iteration of the loop of _cargar_datos: the customer rebuilt from a
\* record, or the exception raised by its constructor
cargar_cliente(d, ahora) ==
    LET r == IF d.tipo = "VIP"
             THEN ClienteVIP(d.correo, d.saldo, d.descuento, ahora)
             ELSE Cliente(d.correo, d.saldo, ahora)
    IN IF r.res # "ok" THEN r
       ELSE [res |-> "ok",
             obj |-> [r.obj EXCEPT !.fecha_registro = fromisoformat(d.fecha_registro),
                                   !.activo = d.activo]]

\* SistemaClientes._cargar_datos: the mappings the load can produce.  A
\* missing file and a document that does not parse give the empty store.
\* An entry whose constructor raises ends the loop, keeping the entries
\* loaded before it: some subset of the entries that do load.
cargar_datos(arch, ahora) ==
    IF arch.estado # "ok" THEN {Vacio}
    ELSE LET buenos == {k \in DOMAIN arch.datos :
                           cargar_cliente(arch.datos[k], ahora).res = "ok"}
             carga(S) == [k \in S |-> cargar_cliente(arch.datos[k], ahora).obj]
         IN IF buenos = DOMAIN arch.datos
            THEN {carga(buenos)}
            ELSE {carga(S) : S \in SUBSET buenos}

\* SistemaClientes.buscar_cliente: the key looked up, and whether it is found
clave(correo) == normalizar(correo)
buscar_cliente(cl, correo) == clave(correo) \in DOMAIN cl

\* d[k] = v on a dict, and del d[k]
poner(cl, k, v) == [x \in DOMAIN cl \cup {k} |-> IF x = k THEN v ELSE cl[x]]
quitar(cl, k) == [x \in DOMAIN cl \ {k} |-> cl[x]]

\* SistemaClientes.registrar_cliente
registrar_cliente(cl, arch, cliente, modo) ==
    IF cliente.correo \in DOMAIN cl
    THEN [clientes |-> cl, archivo |-> arch, res |-> "duplicado", guardado |-> "none"]
    ELSE LET nuevo == poner(cl, cliente.correo, cliente)
             g == guardar_datos(nuevo, arch, modo)
         IN [clientes |-> nuevo, archivo |-> g.archivo,
             res |-> IF g.raised THEN "IOError" ELSE "ok", guardado |-> modo]

\* SistemaClientes.eliminar_cliente: the lookup normalizes the address, the
\* del statement uses the argument as given
eliminar_cliente(cl, arch, correo, modo) ==
    IF ~buscar_cliente(cl, correo)
    THEN [clientes |-> cl, archivo |-> arch, res |-> "no_encontrado", guardado |-> "none"]
    ELSE IF correo \notin DOMAIN cl
    THEN [clientes |-> cl, archivo |-> arch, res |-> "KeyError", guardado |-> "none"]
    ELSE LET nuevo == quitar(cl, correo)
             g == guardar_datos(nuevo, arch, modo)
         IN [clientes |-> nuevo, archivo |-> g.archivo,
             res |-> IF g.raised THEN "IOError" ELSE "ok", guardado |-> modo]

\* SistemaClientes.desactivar_cliente without the call of _guardar_datos
desactivar_cliente_sin_guardar(cl, arch, correo, modo) ==
    IF ~buscar_cliente(cl, correo)
    THEN [clientes |-> cl, archivo |-> arch, res |-> "no_encontrado", guardado |-> "none"]
    ELSE [clientes |-> [cl EXCEPT ![clave(correo)] = desactivar(@)],
          archivo |-> arch, res |-> "ok", guardado |-> "none"]

\* SistemaClientes.desactivar_cliente
desactivar_cliente(cl, arch, correo, modo) ==
    IF ~buscar_cliente(cl, correo)
    THEN [clientes |-> cl, archivo |-> arch, res |-> "no_encontrado", guardado |-> "none"]
    ELSE LET nuevo == [cl EXCEPT ![clave(correo)] = desactivar(@)]
             g == guardar_datos(nuevo, arch, modo)
         IN [clientes |-> nuevo, archivo |-> g.archivo,
             res |-> IF g.raised THEN "IOError" ELSE "ok", guardado |-> modo]

\* SistemaClientes.activar_cliente saving before the lookup is tested
activar_cliente_guarda_antes(cl, arch, correo, modo) ==
    IF ~buscar_cliente(cl, correo)
    THEN [clientes |-> cl, archivo |-> guardar_datos(cl, arch, "ok").archivo,
          res |-> "no_encontrado", guardado |-> "none"]
    ELSE LET nuevo == [cl EXCEPT ![clave(correo)] = activar(@)]
             g == guardar_datos(nuevo, arch, modo)
         IN [clientes |-> nuevo, archivo |-> g.archivo,
             res |-> IF g.raised THEN "IOError" ELSE "ok", guardado |-> modo]

\* SistemaClientes.activar_cliente
activar_cliente(cl, arch, correo, modo) ==
    IF ~buscar_cliente(cl, correo)
    THEN [clientes |-> cl, archivo |-> arch, res |-> "no_encontrado", guardado |-> "none"]
    ELSE LET nuevo == [cl EXCEPT ![clave(correo)] = activar(@)]
             g == guardar_datos(nuevo, arch, modo)
         IN [clientes |-> nuevo, archivo |-> g.archivo,
             res |-> IF g.raised THEN "IOError" ELSE "ok", guardado |-> modo]

\* SistemaClientes.listar_clientes_vip: the keys of the customers returned
listar_clientes_vip(cl) == {k \in DOMAIN cl : cl[k].tipo = "VIP" /\ es_activo(cl[k])}

\* sorted(values, key=lambda x: x.saldo, reverse=True) over the keys in S:
\* the sort is stable, so customers of equal balance come out in the order
\* of the dict; the mapping does not record that order, and every order of
\* them is a possible result
Ordenados(cl, S) ==
    {s \in [1..Cardinality(S) -> S] :
        /\ \A i \in DOMAIN s : \A j \in DOMAIN s : i # j => s[i] # s[j]
        /\ \A i \in DOMAIN s : \A j \in DOMAIN s : i < j => cl[s[i]].saldo >= cl[s[j]].saldo}

\* the slice s[:limite] of Python
Recorte(s, limite) ==
    LET n == Len(s)
        m == IF limite >= 0
             THEN (IF limite < n THEN limite ELSE n)
             ELSE (IF n + limite > 0 THEN n + limite ELSE 0)
    IN [i \in 1..m |-> s[i]]

\* SistemaClientes.clientes_con_mayor_saldo sorting the active customers only
clientes_con_mayor_saldo_activos(cl, limite) ==
    {Recorte(s, limite) : s \in Ordenados(cl, {k \in DOMAIN cl : es_activo(cl[k])})}

\* SistemaClientes.clientes_con_mayor_saldo: the lists it can return, as
\* sequences of the keys of the customers
clientes_con_mayor_saldo(cl, limite) ==
    {Recorte(s, limite) : s \in Ordenados(cl, DOMAIN cl)}

\* sum(...) of the values f[k] for the keys k in S
RECURSIVE Suma(_, _)
Suma(f, S) ==
    IF S = {} THEN 0
    ELSE LET k == CHOOSE x \in S : TRUE IN f[k] + Suma(f, S \ {k})

\* SistemaClientes.obtener_estadisticas: raised when a call of
\* obtener_total_compras raises, the dictionary returned otherwise
obtener_estadisticas(cl) ==
    LET total_clientes == Cardinality(DOMAIN cl)
        clientes_activos == Cardinality({k \in DOMAIN cl : es_activo(cl[k])})
        clientes_vip == Cardinality(listar_clientes_vip(cl))
    IN IF \E k \in DOMAIN cl : obtener_total_compras(cl[k]).raised
       THEN [raised |-> TRUE]
       ELSE [raised |-> FALSE,
             total_clientes |-> total_clientes,
             clientes_activos |-> clientes_activos,
             clientes_inactivos |-> total_clientes - clientes_activos,
             clientes_vip |-> clientes_vip,
             clientes_regular |-> total_clientes - clientes_vip,
             saldo_total_sistema |->
                 Suma([k \in DOMAIN cl |-> cl[k].saldo], DOMAIN cl),
             total_compras_sistema |->
                 Suma([k \in DOMAIN cl |-> obtener_total_compras(cl[k]).valor], DOMAIN cl),
             ahorro_total_vip |->
                 Suma([k \in DOMAIN cl |-> obtener_ahorro_total(cl[k])],
                      listar_clientes_vip(cl))]

----------------------------------------------------------------------------
(* The state machine *)

\* the last operation run: its name, its outcome (what it returned or the
\* exception it raised) and what the file system did to the save it
\* triggered ("none" when it saved nothing)
Ultimo(op, res, guardado) == [op |-> op, res |-> res, guardado |-> guardado]

\* an operation that saves nothing (guardado = "none") is drawn once, with
\* modo = "ok"
Guardado(modo, guardado) == guardado = "none" => modo = "ok"

\* the console serves no request in a thread
SinHilos == [h \in {} |-> 0]

\* SistemaClientes.__init__ on a machine without a saved document
Init ==
    /\ clientes = Vacio
    /\ archivo = [estado |-> "missing", datos |-> Vacio]
    /\ reloj = 0
    /\ last = Ultimo("init", "ok", "none")
    /\ hilos = SinHilos

\* registrar_cliente_regular / registrar_cliente_vip of main.py and the
\* /registrar route: build the customer, then sistema.registrar_cliente
Registrar(tipo, correo, saldo, descuento, modo) ==
    LET c == IF tipo = "VIP"
             THEN ClienteVIP(correo, saldo, descuento, reloj)
             ELSE Cliente(correo, saldo, reloj)
    IN IF c.res # "ok"
       THEN /\ modo = "ok"
            /\ last' = Ultimo("registrar", c.res, "none")
            /\ UNCHANGED <<clientes, archivo, reloj, hilos>>
       ELSE LET r == registrar_cliente(clientes, archivo, c.obj, modo) IN
            /\ Guardado(modo, r.guardado)
            /\ clientes' = r.clientes
            /\ archivo' = r.archivo
            /\ last' = Ultimo("registrar", r.res, r.guardado)
            /\ UNCHANGED <<reloj, hilos>>

\* eliminar_cliente of main.py: sistema.eliminar_cliente(input().strip())
Eliminar(correo, modo) ==
    LET r == eliminar_cliente(clientes, archivo, correo, modo) IN
    /\ Guardado(modo, r.guardado)
    /\ clientes' = r.clientes
    /\ archivo' = r.archivo
    /\ last' = Ultimo("eliminar", r.res, r.guardado)
    /\ UNCHANGED <<reloj, hilos>>

\* SistemaClientes.desactivar_cliente called with an address
Desactivar(correo, modo) ==
    LET r == desactivar_cliente(clientes, archivo, correo, modo) IN
    /\ Guardado(modo, r.guardado)
    /\ clientes' = r.clientes
    /\ archivo' = r.archivo
    /\ last' = Ultimo("desactivar", r.res, r.guardado)
    /\ UNCHANGED <<reloj, hilos>>

\* SistemaClientes.activar_cliente called with an address
Activar(correo, modo) ==
    LET r == activar_cliente(clientes, archivo, correo, modo) IN
    /\ Guardado(modo, r.guardado)
    /\ clientes' = r.clientes
    /\ archivo' = r.archivo
    /\ last' = Ultimo("activar", r.res, r.guardado)
    /\ UNCHANGED <<reloj, hilos>>

\* realizar_compra of main.py: look the customer up, refuse an amount that
\* is not positive, call cliente.realizar_compra, then save.  The handler
\* strips the line read before the lookup strips and lower-cases it again.
Compra(correo, monto, modo) ==
    IF ~buscar_cliente(clientes, correo)
    THEN /\ modo = "ok"
         /\ last' = Ultimo("compra", "no_encontrado", "none")
         /\ UNCHANGED <<clientes, archivo, reloj, hilos>>
    ELSE IF monto <= 0
    THEN /\ modo = "ok"
         /\ last' = Ultimo("compra", "monto_invalido", "none")
         /\ UNCHANGED <<clientes, archivo, reloj, hilos>>
    ELSE LET k == clave(correo)
             r == realizar_compra(clientes[k], monto, reloj)
             nuevo == [clientes EXCEPT ![k] = r.obj]
             g == guardar_datos(nuevo, archivo, modo)
         IN /\ Len(r.obj.historial) <= MaxCompras
            /\ clientes' = nuevo
            /\ archivo' = g.archivo
            /\ Guardado(modo, modo)
            /\ last' = Ultimo("compra", r.res, modo)
            /\ UNCHANGED <<reloj, hilos>>

\* recargar_saldo of main.py
Recarga(correo, monto, modo) ==
    IF ~buscar_cliente(clientes, correo)
    THEN /\ modo = "ok"
         /\ last' = Ultimo("recarga", "no_encontrado", "none")
         /\ UNCHANGED <<clientes, archivo, reloj, hilos>>
    ELSE IF monto <= 0
    THEN /\ modo = "ok"
         /\ last' = Ultimo("recarga", "monto_invalido", "none")
         /\ UNCHANGED <<clientes, archivo, reloj, hilos>>
    ELSE LET k == clave(correo)
             r == recargar_saldo(clientes[k], monto)
             nuevo == [clientes EXCEPT ![k] = r.obj]
             g == guardar_datos(nuevo, archivo, modo)
         IN /\ clientes[k].saldo + monto <= MaxSaldo
            /\ clientes' = nuevo
            /\ archivo' = g.archivo
            /\ Guardado(modo, modo)
            /\ last' = Ultimo("recarga", r.res, modo)
            /\ UNCHANGED <<reloj, hilos>>

\* a caller of the package invokes realizar_compra on the customer stored
\* under key k; nothing is saved
MetodoCompra(k, monto) ==
    LET r == realizar_compra(clientes[k], monto, reloj) IN
    /\ Len(r.obj.historial) <= MaxHist
    /\ clientes' = [clientes EXCEPT ![k] = r.obj]
    /\ last' = Ultimo("Cliente.realizar_compra", r.res, "none")
    /\ UNCHANGED <<archivo, reloj, hilos>>

\* a caller of the package invokes recargar_saldo on a stored customer
MetodoRecarga(k, monto) ==
    LET r == recargar_saldo(clientes[k], monto) IN
    /\ clientes[k].saldo + monto <= MaxSaldo
    /\ clientes' = [clientes EXCEPT ![k] = r.obj]
    /\ last' = Ultimo("Cliente.recargar_saldo", r.res, "none")
    /\ UNCHANGED <<archivo, reloj, hilos>>

\* a caller of the package invokes actualizar_descuento on a stored VIP
MetodoDescuento(k, descuento) ==
    LET r == actualizar_descuento(clientes[k], descuento) IN
    /\ clientes[k].tipo = "VIP"
    /\ clientes' = [clientes EXCEPT ![k] = r.obj]
    /\ last' = Ultimo("ClienteVIP.actualizar_descuento", r.res, "none")
    /\ UNCHANGED <<archivo, reloj, hilos>>

\* the process ends and another one starts: SistemaClientes.__init__ loads
\* the saved document into an empty mapping
Reiniciar ==
    /\ \E ahora \in Tiempos : ahora >= reloj /\ clientes' \in cargar_datos(archivo, ahora)
    /\ last' = Ultimo("reiniciar", "ok", "none")
    /\ UNCHANGED <<archivo, reloj, hilos>>

\* a caller of the package invokes desactivar / activar on a stored customer
MetodoDesactivar(k) ==
    /\ clientes' = [clientes EXCEPT ![k] = desactivar(@)]
    /\ last' = Ultimo("Cliente.desactivar", "ok", "none")
    /\ UNCHANGED <<archivo, reloj, hilos>>

MetodoActivar(k) ==
    /\ clientes' = [clientes EXCEPT ![k] = activar(@)]
    /\ last' = Ultimo("Cliente.activar", "ok", "none")
    /\ UNCHANGED <<archivo, reloj, hilos>>

\* datetime.now() moves on
Tic ==
    /\ \E t \in Tiempos : t > reloj /\ reloj' = t
    /\ last' = Ultimo("tic", "ok", "none")
    /\ UNCHANGED <<clientes, archivo, hilos>>

\* The program: the store driven by the console and the web handlers, the
\* discount of a stored VIP being updated through the package.  The
\* operations of one run read the same instant; a process that loads the
\* document may read a later one.
Next ==
    \/ \E a \in Altas, modo \in Modos : Registrar(a[1], a[2], a[3], a[4], modo)
    \/ \E correo \in Correos, modo \in Modos : Eliminar(correo, modo)
    \/ \E correo \in Correos, modo \in Modos : Desactivar(correo, modo)
    \/ \E correo \in Correos, modo \in Modos : Activar(correo, modo)
    \/ \E correo \in Correos, monto \in Montos, modo \in Modos : Compra(correo, monto, modo)
    \/ \E correo \in Correos, monto \in Montos, modo \in Modos : Recarga(correo, monto, modo)
    \/ \E k \in DOMAIN clientes, descuento \in Descuentos : MetodoDescuento(k, descuento)
    \/ Reiniciar

Spec == Init /\ [][Next]_vars

\* One customer, built by its constructor, on which a caller of the package
\* invokes the methods of Cliente / ClienteVIP
InitCliente ==
    /\ \E a \in Altas :
         LET c == IF a[1] = "VIP"
                  THEN ClienteVIP(a[2], a[3], a[4], 0)
                  ELSE Cliente(a[2], a[3], 0)
         IN /\ c.res = "ok"
            /\ clientes = poner(Vacio, c.obj.correo, c.obj)
    /\ archivo = [estado |-> "missing", datos |-> Vacio]
    /\ reloj = 0
    /\ last = Ultimo("init", "ok", "none")
    /\ hilos = SinHilos

NextCliente ==
    \/ \E k \in DOMAIN clientes, monto \in Montos : MetodoCompra(k, monto)
    \/ \E k \in DOMAIN clientes, monto \in Montos : MetodoRecarga(k, monto)
    \/ \E k \in DOMAIN clientes, descuento \in Descuentos : MetodoDescuento(k, descuento)
    \/ \E k \in DOMAIN clientes : MetodoDesactivar(k)
    \/ \E k \in DOMAIN clientes : MetodoActivar(k)
    \/ Tic

SpecCliente == InitCliente /\ [][NextCliente]_vars

----------------------------------------------------------------------------
(* web_interface.py: the store of the web interface, served by threads *)

\* the documents of the two stores: SistemaClientes() in main() and
\* SistemaClientes("clientes_web.json") in web_interface
ArchivoConsola == "clientes.json"
ArchivoWeb == "clientes_web.json"

\* the threads in which the server of app.run() runs the requests: neither
\* call of app.run passes threaded=False, and nothing in the store locks
NumHilos == 2
Hilos == 1..NumHilos

\* a thread that runs no request
Libre == [pc |-> "libre"]

\* the module is imported: sistema = SistemaClientes("clientes_web.json")
\* finds no document
InitWeb ==
    /\ clientes = Vacio
    /\ archivo = [estado |-> "missing", datos |-> Vacio]
    /\ reloj = 0
    /\ last = Ultimo("init", "ok", "none")
    /\ hilos = [h \in Hilos |-> Libre]

\* POST /registrar in thread h: the customer is built from the form and
\* registrar_cliente tests whether its address is a key of the mapping.
\* The constructor and the test touch nothing another thread writes but the
\* mapping read by the test.
WebRecibir(h, tipo, correo, saldo, descuento) ==
    /\ hilos[h].pc = "libre"
    /\ LET c == IF tipo = "VIP"
                THEN ClienteVIP(correo, saldo, descuento, reloj)
                ELSE Cliente(correo, saldo, reloj)
       IN IF c.res # "ok"
          THEN /\ last' = Ultimo("registrar", c.res, "none")
               /\ UNCHANGED hilos
          ELSE IF c.obj.correo \in DOMAIN clientes
          THEN /\ last' = Ultimo("registrar", "duplicado", "none")
               /\ UNCHANGED hilos
          ELSE /\ hilos' = [hilos EXCEPT ![h] = [pc |-> "comprobado", cliente |-> c.obj]]
               /\ UNCHANGED last
    /\ UNCHANGED <<clientes, archivo, reloj>>

\* thread h goes on after the test: self.clientes[cliente.correo] = cliente
WebInsertar(h) ==
    /\ hilos[h].pc = "comprobado"
    /\ clientes' = poner(clientes, hilos[h].cliente.correo, hilos[h].cliente)
    /\ hilos' = [hilos EXCEPT ![h].pc = "insertado"]
    /\ UNCHANGED <<archivo, reloj, last>>

\* thread h goes on after the insertion: self._guardar_datos(), and the
\* route answers with the message of success
WebGuardar(h, modo) ==
    /\ hilos[h].pc = "insertado"
    /\ archivo' = guardar_datos(clientes, archivo, modo).archivo
    /\ last' = Ultimo("registrar", "ok", modo)
    /\ hilos' = [hilos EXCEPT ![h] = Libre]
    /\ UNCHANGED <<clientes, reloj>>

\* thread g inserts a new key while thread h is in the loop of
\* _guardar_datos over self.clientes.items(): the loop raises RuntimeError
\* (the dictionary changed size), which _guardar_datos catches before it
\* opens the file; the route of h answers with the message of success
WebGuardarInterrumpido(h, g) ==
    /\ h # g
    /\ hilos[h].pc = "insertado"
    /\ hilos[g].pc = "comprobado"
    /\ hilos[g].cliente.correo \notin DOMAIN clientes
    /\ clientes' = poner(clientes, hilos[g].cliente.correo, hilos[g].cliente)
    /\ archivo' = guardar_datos(clientes', archivo, "fail_open").archivo
    /\ last' = Ultimo("registrar", "ok", "fail_open")
    /\ hilos' = [hilos EXCEPT ![h] = Libre, ![g].pc = "insertado"]
    /\ UNCHANGED reloj

NextWeb ==
    \/ \E h \in Hilos, a \in Altas : WebRecibir(h, a[1], a[2], a[3], a[4])
    \/ \E h \in Hilos : WebInsertar(h)
    \/ \E h \in Hilos, modo \in Modos : WebGuardar(h, modo)
    \/ \E h \in Hilos, g \in Hilos : WebGuardarInterrumpido(h, g)

SpecWeb == InitWeb /\ [][NextWeb]_vars

----------------------------------------------------------------------------
(* Properties of Cliente and ClienteVIP, checked under SpecCliente *)

\* the amount a purchase of monto asks of the balance of customer c
Requerido(c, monto) ==
    IF c.tipo = "VIP" THEN (monto * (100 - c.descuento)) \div 100 ELSE monto

\* C1: the balance of a validly constructed customer is never negative,
\* whatever purchases and recharges were attempted on it.
C1_SaldoNoNegativo == \A k \in DOMAIN clientes : clientes[k].saldo >= 0

\* a purchase has just emptied the balance
C1_Witness ==
    /\ last.op = "Cliente.realizar_compra"
    /\ last.res = "ok"
    /\ \E k \in DOMAIN clientes : clientes[k].saldo = 0 /\ Len(clientes[k].historial) = 2

\* C2: a purchase that asks more than the balance (the discounted amount
\* for a VIP) returns the decline outcome and leaves the customer, balance
\* and history included, as it was.
C2_RechazoSinCambio ==
    [][\A k \in DOMAIN clientes, monto \in Montos :
         (MetodoCompra(k, monto) /\ monto > 0 /\ Requerido(clientes[k], monto) > clientes[k].saldo)
         => (last'.res = "insuficiente" /\ clientes' = clientes)]_vars

\* a VIP that has bought before has just been declined
C2_Witness ==
    /\ last.op = "Cliente.realizar_compra"
    /\ last.res = "insuficiente"
    /\ \E k \in DOMAIN clientes : clientes[k].tipo = "VIP" /\ clientes[k].historial # <<>>

\* the amounts debited by the purchases of a history
RECURSIVE Debitado(_)
Debitado(h) ==
    IF h = <<>> THEN 0
    ELSE (IF "monto_final" \in DOMAIN Head(h) THEN Head(h).monto_final ELSE Head(h).monto)
         + Debitado(Tail(h))

\* C3: obtener_total_compras returns, for a regular and for a VIP customer,
\* the sum of the amounts debited by the purchases of the history; it does
\* not fail.
C3_TotalCompras ==
    \A k \in DOMAIN clientes :
        /\ ~obtener_total_compras(clientes[k]).raised
        /\ obtener_total_compras(clientes[k]).valor = Debitado(clientes[k].historial)

\* C10: a purchase or a recharge of an amount that is not positive, and an
\* update of the discount to a rate outside [0, 1], raise the validation
\* error and leave the customer as it was.
C10_ValidacionSinCambio ==
    [][\A k \in DOMAIN clientes :
         /\ \A monto \in Montos :
              (MetodoCompra(k, monto) /\ monto <= 0)
              => (last'.res = "ValueError" /\ clientes' = clientes)
         /\ \A monto \in Montos :
              (MetodoRecarga(k, monto) /\ monto <= 0)
              => (last'.res = "ValueError" /\ clientes' = clientes)
         /\ \A descuento \in Descuentos :
              (MetodoDescuento(k, descuento) /\ (descuento < 0 \/ descuento > 100))
              => (last'.res = "ValueError" /\ clientes' = clientes)]_vars

\* an update of the discount of a VIP that has bought has just been refused
C10_Witness ==
    /\ last.op = "ClienteVIP.actualizar_descuento"
    /\ last.res = "ValueError"
    /\ \E k \in DOMAIN clientes : clientes[k].tipo = "VIP" /\ clientes[k].historial # <<>>

\* the example of the purchase law: rate 0.10, balance 100.00, amount 50.00
EjemploVIP ==
    LET v == ClienteVIP(E_a, 10000, 10, 0).obj
        r == ClienteVIP_realizar_compra(v, 5000, 0)
    IN /\ r.res = "ok"
       /\ r.obj.saldo = 5500
       /\ Len(r.obj.historial) = 1
       /\ r.obj.historial[1].monto_original = 5000
       /\ r.obj.historial[1].monto_final = 4500
       /\ r.obj.historial[1].ahorro = 500
       /\ r.obj.historial[1].saldo_restante = 5500

\* C11: a purchase of a positive amount by a VIP with rate d and balance b
\* asks amount * (1 - d) of the balance.  It succeeds exactly when that is
\* at most b, even when the original amount is above b; it then debits
\* exactly the discounted amount and appends one record holding the
\* original amount, the discounted amount, their difference as the saving
\* and b minus the discounted amount as the remaining balance.  Otherwise
\* it is declined and changes nothing.
C11_LeyCompraVIP ==
    [][/\ EjemploVIP
       /\ \A k \in DOMAIN clientes, monto \in Montos :
            (MetodoCompra(k, monto) /\ monto > 0 /\ clientes[k].tipo = "VIP")
            => LET b == clientes[k].saldo
                   final == (monto * (100 - clientes[k].descuento)) \div 100
                   h == clientes[k].historial
                   h2 == clientes'[k].historial
               IN IF final <= b
                  THEN /\ last'.res = "ok"
                       /\ clientes'[k].saldo = b - final
                       /\ Len(h2) = Len(h) + 1
                       /\ SubSeq(h2, 1, Len(h)) = h
                       /\ h2[Len(h2)].monto_original = monto
                       /\ h2[Len(h2)].monto_final = final
                       /\ h2[Len(h2)].ahorro = monto - final
                       /\ h2[Len(h2)].saldo_restante = b - final
                  ELSE /\ last'.res = "insuficiente"
                       /\ clientes' = clientes]_vars

\* a VIP has just bought for an original amount above the balance it had
C11_Witness ==
    /\ last.op = "Cliente.realizar_compra"
    /\ last.res = "ok"
    /\ \E k \in DOMAIN clientes :
          LET h == clientes[k].historial IN
          /\ clientes[k].tipo = "VIP"
          /\ Len(h) = 2
          /\ h[2].monto_original > h[1].saldo_restante
          /\ h[2].ahorro > 0

\* C17: the balance of a customer moves only by the amounts of its
\* successful operations: a successful purchase takes exactly the amount
\* debited (the discounted amount for a VIP) and appends exactly one record,
\* whose remaining balance is the balance just after it; a successful
\* recharge adds exactly its amount and appends nothing; a declined or
\* refused call, and every other operation, leave balance and history as
\* they were.  The balance is therefore the initial one plus the recharges
\* minus the debits.
C17_ConservacionDeFondos ==
    [][\A k \in DOMAIN clientes :
         LET c == clientes[k]
             d == clientes'[k]
             igual == d.saldo = c.saldo /\ d.historial = c.historial
         IN /\ \A monto \in Montos :
                 MetodoCompra(k, monto) =>
                    IF last'.res = "ok"
                    THEN /\ monto > 0
                         /\ d.saldo = c.saldo - Requerido(c, monto)
                         /\ Len(d.historial) = Len(c.historial) + 1
                         /\ SubSeq(d.historial, 1, Len(c.historial)) = c.historial
                         /\ d.historial[Len(d.historial)].saldo_restante = d.saldo
                    ELSE igual
            /\ \A monto \in Montos :
                 MetodoRecarga(k, monto) =>
                    IF last'.res = "ok"
                    THEN /\ monto > 0
                         /\ d.saldo = c.saldo + monto
                         /\ d.historial = c.historial
                    ELSE igual
            /\ last'.op \notin {"Cliente.realizar_compra", "Cliente.recargar_saldo"}
                 => igual]_vars

\* a regular customer has bought, recharged and bought again
C17_Witness ==
    /\ last = Ultimo("Cliente.realizar_compra", "ok", "none")
    /\ \E k \in DOMAIN clientes :
          /\ clientes[k].tipo = "Regular"
          /\ Len(clientes[k].historial) = 2
          /\ clientes[k].historial[1].saldo_restante = 0
          /\ clientes[k].saldo = 0

----------------------------------------------------------------------------
(* Properties of SistemaClientes and of the handlers, checked under Spec *)

\* the keys of the VIP customers of the mapping, active or not
TodosVIP == {k \in DOMAIN clientes : clientes[k].tipo = "VIP"}

\* C4: obtener_estadisticas counts as VIP every ClienteVIP of the mapping
\* and as regular every other customer, active or not, and sums the savings
\* of every VIP of the mapping.
C4_EstadisticasVIP ==
    LET e == obtener_estadisticas(clientes) IN
    ~e.raised =>
        /\ e.clientes_vip = Cardinality(TodosVIP)
        /\ e.clientes_regular = Cardinality(DOMAIN clientes \ TodosVIP)
        /\ e.ahorro_total_vip =
               Suma([k \in DOMAIN clientes |-> obtener_ahorro_total(clientes[k])], TodosVIP)

\* C5: eliminar_cliente returns not-found and leaves the mapping alone when
\* the lookup finds nothing; for every spelling the lookup resolves it
\* deletes that customer, and only it, and returns success without raising.
C5_EliminarResuelto ==
    [][\A correo \in Correos, modo \in Modos :
         Eliminar(correo, modo) =>
            IF buscar_cliente(clientes, correo)
            THEN /\ last'.res = "ok"
                 /\ clientes' = quitar(clientes, strip(lower(correo)))
            ELSE /\ last'.res = "no_encontrado"
                 /\ clientes' = clientes]_vars

\* C6: a registration whose address has the normalized form of a stored
\* key, the balance and the discount rate being valid, is declined as a
\* duplicate, without an exception, and leaves the mapping as it was.
C6_DuplicadoNormalizado ==
    [][\A a \in Altas, modo \in Modos :
         ( /\ Registrar(a[1], a[2], a[3], a[4], modo)
           /\ a[3] >= 0
           /\ a[1] = "VIP" => (0 <= a[4] /\ a[4] <= 100)
           /\ strip(lower(a[2])) \in DOMAIN clientes )
         => (last'.res = "duplicado" /\ clientes' = clientes)]_vars

\* the fields of a customer that the round trip must give back
Persistente(c) ==
    IF c.tipo = "VIP"
    THEN <<c.tipo, c.correo, c.saldo, c.activo, c.fecha_registro, c.descuento, c.nivel_vip>>
    ELSE <<c.tipo, c.correo, c.saldo, c.activo, c.fecha_registro>>

\* C7: saving the mapping and loading the document into a fresh store, at
\* whatever instant, gives the same keys and under each key a customer of
\* the same class with the same address, balance, active flag and
\* registration date, and for a VIP the same discount rate and level.
C7_IdaYVuelta ==
    \A ahora \in Tiempos :
      \A cargado \in cargar_datos(guardar_datos(clientes, archivo, "ok").archivo, ahora) :
        /\ DOMAIN cargado = DOMAIN clientes
        /\ \A k \in DOMAIN clientes : Persistente(cargado[k]) = Persistente(clientes[k])

\* two customers are stored, one of them a deactivated VIP whose balance
\* and discount rate are no longer those it was registered with
C7_Witness ==
    /\ Cardinality(DOMAIN clientes) = 2
    /\ \E k \in DOMAIN clientes :
          /\ clientes[k].tipo = "VIP"
          /\ ~clientes[k].activo
          /\ clientes[k].descuento = 0
          /\ clientes[k].saldo = 50

\* the operations of the store and of the console that save
Mutadoras == {"registrar", "eliminar", "desactivar", "activar", "compra", "recarga"}

C9_FalloDeGuardado ==
    [][last'.guardado = "fail_write" =>
         /\ \A a \in Altas :
              (last'.op = "registrar" /\ Registrar(a[1], a[2], a[3], a[4], "fail_write"))
              => /\ last'.res = "ok"
                 /\ strip(lower(a[2])) \in DOMAIN clientes' \ DOMAIN clientes
         /\ \A correo \in Correos :
              /\ (last'.op = "eliminar" /\ Eliminar(correo, "fail_write"))
                 => /\ last'.res = "ok"
                    /\ DOMAIN clientes' = DOMAIN clientes \ {strip(lower(correo))}
              /\ (last'.op = "desactivar" /\ Desactivar(correo, "fail_write"))
                 => /\ last'.res = "ok"
                    /\ ~clientes'[strip(lower(correo))].activo
              /\ (last'.op = "activar" /\ Activar(correo, "fail_write"))
                 => /\ last'.res = "ok"
                    /\ clientes'[strip(lower(correo))].activo]_vars

\* the save of a removal has just failed, and a customer is still served
C9_Witness ==
    /\ last = Ultimo("eliminar", "ok", "fail_write")
    /\ archivo.estado = "corrupt"
    /\ clientes # Vacio

\* the label of the highest threshold not above the rate d, in hundredths
NivelEsperado(d) ==
    IF d >= 25 THEN "Diamante"
    ELSE IF d >= 20 THEN "Platino"
    ELSE IF d >= 15 THEN "Oro"
    ELSE IF d >= 10 THEN "Plata"
    ELSE "Bronce"

\* the level computed for every rate from 0.00 to 1.00, and the examples
NivelesCalculados ==
    /\ \A d \in 0..100 : calcular_nivel_vip(d) = NivelEsperado(d)
    /\ calcular_nivel_vip(12) = "Plata"
    /\ calcular_nivel_vip(25) = "Diamante"
    /\ calcular_nivel_vip(3) = "Bronce"

\* C12: the level of every VIP of the store, whether built by the
\* constructor, changed by actualizar_descuento or loaded from the document,
\* is the label of the highest threshold not above its rate, "Bronce" when
\* the rate is below all of them; the level computed for every rate from
\* 0.00 to 1.00 is that label (0.12 Plata, 0.25 Diamante, 0.03 Bronce).
C12_NivelDerivado ==
    /\ \A k \in DOMAIN clientes :
          clientes[k].tipo = "VIP" =>
              clientes[k].nivel_vip = NivelEsperado(clientes[k].descuento)
    /\ NivelesCalculados

\* a VIP whose rate was lowered to 0 has just been loaded from the document
C12_Witness ==
    /\ last.op = "reiniciar"
    /\ \E k \in DOMAIN clientes :
          /\ clientes[k].tipo = "VIP"
          /\ clientes[k].descuento = 0
          /\ clientes[k].nivel_vip = "Bronce"

\* the limits asked of clientes_con_mayor_saldo
Limites == 0..3

\* three customers with the balances 10.00, 50.00 and 30.00
EjemploSaldos ==
    [k \in {"p", "q", "r"} |->
        [saldo |-> CASE k = "p" -> 1000 [] k = "q" -> 5000 [] k = "r" -> 3000,
         activo |-> TRUE]]

\* the two customers returned for the example, in their order
EjemploMayorSaldo == clientes_con_mayor_saldo(EjemploSaldos, 2) = {<<"q", "r">>}

\* C13: whatever the limit, every list clientes_con_mayor_saldo can return
\* holds distinct customers of the whole mapping, active or not, in
\* non-increasing order of balance; it has min(limit, size of the store)
\* elements, and no customer left out has a balance above one returned.
\* Balances 10, 50, 30 with limit 2 give the customers with 50 and 30.
C13_MayorSaldo ==
    /\ \A limite \in Limites : \A r \in clientes_con_mayor_saldo(clientes, limite) :
          LET n == Cardinality(DOMAIN clientes)
              devueltos == {r[i] : i \in DOMAIN r}
          IN /\ Len(r) <= limite
             /\ Len(r) = IF limite < n THEN limite ELSE n
             /\ devueltos \subseteq DOMAIN clientes
             /\ Cardinality(devueltos) = Len(r)
             /\ \A i \in DOMAIN r : \A j \in DOMAIN r :
                   i < j => clientes[r[i]].saldo >= clientes[r[j]].saldo
             /\ \A k \in DOMAIN clientes \ devueltos : \A i \in DOMAIN r :
                   clientes[k].saldo <= clientes[r[i]].saldo
    /\ EjemploMayorSaldo

\* two customers are stored, the one with the higher balance is deactivated
\* and is the one returned for the limit 1
C13_Witness ==
    \E k \in DOMAIN clientes : \E j \in DOMAIN clientes :
        /\ k # j
        /\ ~clientes[k].activo
        /\ clientes[j].activo
        /\ clientes[k].saldo > clientes[j].saldo
        /\ clientes_con_mayor_saldo(clientes, 1) = {<<k>>}

\* C14: desactivar_cliente and activar_cliente called with an address the
\* lookup does not find return the not-found outcome without raising and
\* leave the mapping, with the active flag of every customer, the
\* statistics and the saved document as they were.
C14_AusenteSinCambio ==
    [][\A correo \in Correos, modo \in Modos :
         ( /\ ~buscar_cliente(clientes, correo)
           /\ Desactivar(correo, modo) \/ Activar(correo, modo) )
         => /\ last'.res = "no_encontrado"
            /\ clientes' = clientes
            /\ archivo' = archivo
            /\ obtener_estadisticas(clientes') = obtener_estadisticas(clientes)
            /\ Cardinality({k \in DOMAIN clientes' : es_activo(clientes'[k])})
                 = Cardinality({k \in DOMAIN clientes : es_activo(clientes[k])})]_vars

\* a deactivation has just found no customer under the address, another
\* customer being stored and saved
C14_Witness ==
    /\ last = Ultimo("desactivar", "no_encontrado", "none")
    /\ clientes # Vacio
    /\ archivo.estado = "ok"
    /\ \E k \in DOMAIN clientes : clientes[k].activo

\* h is an initial part of g: g holds the records of h, unaltered and in
\* their order, possibly followed by more
EsPrefijo(h, g) == Len(h) <= Len(g) /\ SubSeq(g, 1, Len(h)) = h

\* C15: the purchase history of a stored customer only grows: over every
\* operation, a restart that repopulates the store from the saved document
\* included, the records already appended stay, unaltered and in their
\* order, and the total of the savings does not decrease.
C15_HistorialSoloCrece ==
    [][\A k \in DOMAIN clientes \cap DOMAIN clientes' :
         /\ EsPrefijo(clientes[k].historial, clientes'[k].historial)
         /\ obtener_ahorro_total(clientes'[k]) >= obtener_ahorro_total(clientes[k])]_vars

\* C16: the operations on the store of the web interface run one after the
\* other: at most one request is between its start and its answer, so a
\* registration inserts under a key that is still absent, as its test
\* found it; and the console and the web interface save to different files.
C16_SinEntrelazado ==
    [][/\ ArchivoConsola # ArchivoWeb
       /\ Cardinality({h \in Hilos : hilos'[h].pc # "libre"}) <= 1
       /\ \A h \in Hilos :
            WebInsertar(h) => hilos[h].cliente.correo \notin DOMAIN clientes]_vars

\* C18: every key of the mapping is the address of the customer stored
\* under it and is in normalized form (lower case, no surrounding
\* whitespace), so the lookup of the address of a stored customer finds
\* that customer, and no customer is stored under two keys.
C18_ClaveNormalizada ==
    /\ \A k \in DOMAIN clientes :
          /\ clientes[k].correo = k
          /\ strip(lower(k)) = k
          /\ buscar_cliente(clientes, clientes[k].correo)
          /\ clave(clientes[k].correo) = k
    /\ \A k \in DOMAIN clientes : \A j \in DOMAIN clientes :
          clientes[k].correo = clientes[j].correo => k = j

\* two customers have just been loaded from the document, one of them the
\* VIP that was registered with its address in upper case
C18_Witness ==
    /\ last.op = "reiniciar"
    /\ Cardinality(DOMAIN clientes) = 2
    /\ \E k \in DOMAIN clientes : clientes[k].tipo = "VIP" /\ k = E_a

\* C19: a purchase and a recharge do on a deactivated customer what they
\* do on an active one: the outcome and the change of balance and history
\* depend on the balance, the rate and the amount only, and the flag stays
\* as it was.  desactivar_cliente and activar_cliente set the flag of the
\* customer found and change nothing else, so repeating one changes
\* nothing.
C19_ActivoNoCondiciona ==
    [][\A correo \in Correos, modo \in Modos \cap {last'.guardado} :
         LET k == clave(correo) IN
         k \in DOMAIN clientes =>
            /\ \A monto \in Montos :
                 (last'.op = "compra" /\ monto > 0 /\ Compra(correo, monto, modo)) =>
                    LET c == clientes[k]
                        d == clientes'[k]
                        pagado == Requerido(c, monto)
                    IN /\ d.activo = c.activo
                       /\ IF pagado <= c.saldo
                          THEN /\ last'.res = "ok"
                               /\ d.saldo = c.saldo - pagado
                               /\ Len(d.historial) = Len(c.historial) + 1
                          ELSE /\ last'.res = "insuficiente"
                               /\ d = c
            /\ \A monto \in Montos :
                 (last'.op = "recarga" /\ monto > 0 /\ Recarga(correo, monto, modo)) =>
                    /\ last'.res = "ok"
                    /\ clientes' = [clientes EXCEPT ![k].saldo = @ + monto]
            /\ (last'.op = "desactivar" /\ Desactivar(correo, modo)) =>
                    /\ clientes' = [clientes EXCEPT ![k].activo = FALSE]
                    /\ ~clientes[k].activo => clientes' = clientes
            /\ (last'.op = "activar" /\ Activar(correo, modo)) =>
                    /\ clientes' = [clientes EXCEPT ![k].activo = TRUE]
                    /\ clientes[k].activo => clientes' = clientes]_vars

\* a purchase has just succeeded on a deactivated customer
C19_Witness ==
    /\ last = Ultimo("compra", "ok", "ok")
    /\ \E k \in DOMAIN clientes :
          /\ ~clientes[k].activo
          /\ Len(clientes[k].historial) = 1
          /\ clientes[k].saldo < 100

====
